---- MODULE Spec2Model ----
(***************************************************************************)
(* A model of autokeras.auto_model.AutoModel: graph assembly at            *)
(* construction time and the multi-input/multi-output data pipeline        *)
(* behind fit, predict and evaluate.                                       *)
(*                                                                         *)
(* Two specifications are given.  SpecBuild starts from a declaration      *)
(* (inputs, outputs, tuner) and runs AutoModel.__init__ on it.  Spec       *)
(* starts from successfully constructed instances and runs the public      *)
(* calls fit, predict and evaluate on them.                                *)
(***************************************************************************)
EXTENDS Integers, Sequences, FiniteSets

VARIABLES
    phase,        \* "declared", "failed" (__init__ raised) or "constructed"
    inputs,       \* self.inputs: sequence of input kinds
    declOutputs,  \* the outputs argument: sequence of "Node" / "Head"
    tunerArg,     \* the tuner argument
    blocks,       \* Blocks instantiated and applied by __init__, in order
    middle,       \* middle_nodes of _assemble: the input each one encodes
    graph,        \* the Graph handed to the tuner, or NoGraph
    tuner,        \* self.tuner: the tuner class instantiated, or "none"
    err,          \* the exception raised by the last operation, or NoErr
    fits,         \* fits[side][i]: fit_transform calls seen by adapter i
    split,        \* self._split_dataset
    trace,        \* collaborator calls made by the last public call
    call,         \* the last public call and its arguments
    search,       \* what the last Tuner.search call was given
    ready,        \* some fit call has completed
    calls         \* number of public calls made so far

vars == <<phase, inputs, declOutputs, tunerArg, blocks, middle, graph, tuner,
          err, fits, split, trace, call, search, ready, calls>>

buildVars == <<phase, inputs, declOutputs, tunerArg, blocks, middle, graph, tuner>>

runVars == <<fits, split, trace, call, search, ready, calls>>

(***************************************************************************)
(* Bounds                                                                  *)
(***************************************************************************)
MaxInputs == 2

MaxOutputs == 2

MaxCalls == 2

MaxArity == 2

MaxNest == 2

NumInstances == 10

(***************************************************************************)
(* Values                                                                  *)
(***************************************************************************)
NoErr == "none"

NoGraph == [built |-> FALSE, inputs |-> <<>>, outputs |-> <<>>]

Min(a, b) == IF a < b THEN a ELSE b

SeqsUpTo(S, lo, hi) == UNION {[1..n -> S] : n \in lo..hi}

RecognizedKinds == {"text", "image", "structured", "timeseries"}

InputKinds == RecognizedKinds \cup {"generic"}

OutputKinds == {"Node", "Head"}

TUNER_CLASSES == [bayesian |-> "BayesianOptimization", random |-> "RandomSearch", hyperband |-> "Hyperband", greedy |-> "Greedy"]

\* A tuner argument that is not a string: a subclass of AutoTuner.
TunerSubclass == "<class AutoTuner>"

TunerArgs == DOMAIN TUNER_CLASSES \cup {"unknown", TunerSubclass}

TunerValueError == "ValueError: tuner is invalid, expected one of greedy, random, hyperband, bayesian"

UnboundGraphError == "UnboundLocalError: local variable 'graph' referenced before assignment"

MiddleIndexError == "IndexError: list index out of range"

(***************************************************************************)
(* Graph assembly                                                          *)
(***************************************************************************)
\* isinstance(input_node, input_module.<cls>): an input Node has one semantic
\* kind, and the kinds are disjoint.
IsInstance(kind, cls) == kind = cls

IsStr(t) == t # TunerSubclass

get_tuner_class(t) ==
    IF IsStr(t) /\ t \in DOMAIN TUNER_CLASSES
    THEN [err |-> NoErr, class |-> TUNER_CLASSES[t]]
    ELSE [err |-> TunerValueError, class |-> "none"]

\* The encoder Blocks the loop body of _assemble applies to one input.
Encoders(kind) ==
    (IF IsInstance(kind, "text") THEN <<"TextBlock">> ELSE <<>>)
    \o (IF IsInstance(kind, "image") THEN <<"ImageBlock">> ELSE <<>>)
    \o (IF IsInstance(kind, "structured") THEN <<"StructuredDataBlock">> ELSE <<>>)
    \o (IF IsInstance(kind, "timeseries") THEN <<"TimeseriesBlock">> ELSE <<>>)

RECURSIVE EncodeLoop(_, _, _)
EncodeLoop(ins, i, acc) ==
    IF i > Len(ins) THEN acc
    ELSE LET enc == Encoders(ins[i])
         IN EncodeLoop(ins, i + 1,
                [blocks |-> acc.blocks \o enc,
                 middle |-> acc.middle \o [k \in 1..Len(enc) |-> i]])

\* A mutant of _assemble: the timeseries branch of the dispatch is missing.
AssembleNoTimeseries(ins, outs) ==
    LET kept == [i \in 1..Len(ins) |-> IF ins[i] = "timeseries" THEN "generic" ELSE ins[i]]
        enc == EncodeLoop(kept, 1, [blocks |-> <<>>, middle |-> <<>>])
    IN IF Len(enc.middle) = 0
       THEN [err |-> MiddleIndexError, blocks |-> enc.blocks, middle |-> enc.middle, graph |-> NoGraph]
       ELSE [err |-> NoErr,
             blocks |-> enc.blocks \o (IF Len(enc.middle) > 1 THEN <<"Merge">> ELSE <<>>) \o outs,
             middle |-> enc.middle,
             graph |-> [built |-> TRUE, inputs |-> [i \in 1..Len(ins) |-> <<"input", i>>],
                        outputs |-> [j \in 1..Len(outs) |-> <<"head_output", j>>]]]

\* A mutant of _assemble: an empty middle_nodes list is not indexed, the
\* Heads are applied to nothing and the Graph is constructed all the same.
AssembleEmptyMiddle(ins, outs) ==
    LET enc == EncodeLoop(ins, 1, [blocks |-> <<>>, middle |-> <<>>])
    IN [err |-> NoErr,
        blocks |-> enc.blocks \o (IF Len(enc.middle) > 1 THEN <<"Merge">> ELSE <<>>) \o outs,
        middle |-> enc.middle,
        graph |-> [built |-> TRUE, inputs |-> [i \in 1..Len(ins) |-> <<"input", i>>],
                   outputs |-> [j \in 1..Len(outs) |-> <<"head_output", j>>]]]

\* AutoModel._assemble: one pass over the inputs, a Merge when more than one
\* middle node resulted, every Head applied to the combined node, the Graph.
_assemble(ins, outs) ==
    LET enc == EncodeLoop(ins, 1, [blocks |-> <<>>, middle |-> <<>>])
    IN IF Len(enc.middle) > 1
       THEN [err |-> NoErr,
             blocks |-> enc.blocks \o <<"Merge">> \o outs,
             middle |-> enc.middle,
             graph |-> [built |-> TRUE, inputs |-> [i \in 1..Len(ins) |-> <<"input", i>>],
                        outputs |-> [j \in 1..Len(outs) |-> <<"head_output", j>>]]]
       ELSE IF Len(enc.middle) = 0
       THEN [err |-> MiddleIndexError, blocks |-> enc.blocks, middle |-> enc.middle, graph |-> NoGraph]
       ELSE [err |-> NoErr,
             blocks |-> enc.blocks \o outs,
             middle |-> enc.middle,
             graph |-> [built |-> TRUE, inputs |-> [i \in 1..Len(ins) |-> <<"input", i>>],
                        outputs |-> [j \in 1..Len(outs) |-> <<"head_output", j>>]]]

AllOf(outs, kind) == \A j \in 1..Len(outs) : outs[j] = kind

\* A mutant of _build_graph: the input/output API branch is a plain else.
BuildGraphElse(ins, outs) ==
    IF AllOf(outs, "Node")
    THEN [err |-> NoErr, blocks |-> <<>>, middle |-> <<>>,
          graph |-> [built |-> TRUE, inputs |-> [i \in 1..Len(ins) |-> <<"input", i>>],
                     outputs |-> [j \in 1..Len(outs) |-> <<"declared_output", j>>]]]
    ELSE _assemble(ins, outs)

\* AutoModel._build_graph: the functional API records the declared boundary,
\* the input/output API assembles; otherwise the local graph is never bound.
_build_graph(ins, outs) ==
    IF AllOf(outs, "Node")
    THEN [err |-> NoErr, blocks |-> <<>>, middle |-> <<>>,
          graph |-> [built |-> TRUE, inputs |-> [i \in 1..Len(ins) |-> <<"input", i>>],
                     outputs |-> [j \in 1..Len(outs) |-> <<"declared_output", j>>]]]
    ELSE IF AllOf(outs, "Head")
    THEN _assemble(ins, outs)
    ELSE [err |-> UnboundGraphError, blocks |-> <<>>, middle |-> <<>>, graph |-> NoGraph]

\* AutoModel.__init__ up to the construction of the tuner: the graph is
\* built first, the tuner string is resolved next.
__init__(ins, outs, t) ==
    LET g == _build_graph(ins, outs)
        tc == IF IsStr(t) THEN get_tuner_class(t) ELSE [err |-> NoErr, class |-> t]
    IN IF g.err # NoErr
       THEN [err |-> g.err, blocks |-> g.blocks, middle |-> g.middle, graph |-> NoGraph, tuner |-> "none"]
       ELSE IF tc.err # NoErr
       THEN [err |-> tc.err, blocks |-> g.blocks, middle |-> g.middle, graph |-> g.graph, tuner |-> "none"]
       ELSE [err |-> NoErr, blocks |-> g.blocks, middle |-> g.middle, graph |-> g.graph, tuner |-> tc.class]

(***************************************************************************)
(* Data: arguments of the public calls                                     *)
(*                                                                         *)
(* An x argument is either a nest of n arrays (ds = FALSE) or a            *)
(* tf.data.Dataset (ds = TRUE) whose element is a tuple described by s:    *)
(* s[i] = 0 for a tensor, s[i] = k > 0 for a tuple of k tensors.  A y      *)
(* argument is None (NoneY) or a nest of that many arrays.                 *)
(***************************************************************************)
NoneY == -1

Raw(n) == [ds |-> FALSE, n |-> n, s |-> <<>>]

Ds(s) == [ds |-> TRUE, n |-> 0, s |-> s]

Structs == SeqsUpTo(0..MaxNest, 1, 2) \cup {<<0, 0, 0>>}

\* Datasets given to fit and evaluate: (x, y) pairs whose parts are a tensor
\* or a tuple of MaxNest tensors, and one dataset that is no pair.
PairStructs == {<<a, b>> : a \in {0, MaxNest}, b \in {0, MaxNest}} \cup {<<0, 0, 0>>}

\* Numbers of arrays given to fit and evaluate, and to predict.
Counts == 1..MaxArity

XArgs == {Raw(n) : n \in 0..MaxArity} \cup {Ds(s) : s \in Structs}

\* (x, y) as arrays, or x as a dataset with y omitted or (wrongly) given.
XYArgs ==
    {<<Raw(n), y>> : n \in Counts, y \in {NoneY} \cup Counts}
    \cup {<<Ds(s), NoneY>> : s \in PairStructs}
    \cup {<<Ds(<<0, 0>>), 1>>}

NoVal == [t |-> "none", x |-> Raw(0), y |-> NoneY]

EmptyVal == [t |-> "empty", x |-> Raw(0), y |-> NoneY]

RawVals == {[t |-> "raw", x |-> Raw(n), y |-> m] : n \in Counts, m \in Counts}

DsVals == {[t |-> "ds", x |-> Ds(s), y |-> NoneY] : s \in PairStructs}

\* validation_data is of the type of the training data, None or empty.
ValArgs(x) == {NoVal, EmptyVal} \cup (IF x.ds THEN DsVals ELSE RawVals)

\* validation_split in percent; 0 stands for every falsy value.
Splits == {0, 20}

\* bool(validation_data): None and the empty tuple are falsy.
Truthy(vd) == vd.t \in {"raw", "ds"}

NoCall == [op |-> "none", x |-> Raw(0), y |-> NoneY, vd |-> NoVal, vs |-> 0]

NoData == [src |-> "none", lo |-> 0, hi |-> 0]

NoSearch == [called |-> FALSE, x |-> NoData, validation_data |-> NoData, fit_on_val_data |-> FALSE]

(***************************************************************************)
(* Errors of the data pipeline                                             *)
(***************************************************************************)
MissingValidationError == "ValueError: Either validation_data or validation_split should be provided."

YWithDatasetError(validation) ==
    IF validation THEN "ValueError: Expect y is None when x is tf.data.Dataset in validation_data."
    ELSE "ValueError: Expect y is None when x is tf.data.Dataset."

XArityError(validation) ==
    IF validation THEN "ValueError: Expect x in validation_data to have input_num arrays, but got data_num"
    ELSE "ValueError: Expect x to have input_num arrays, but got data_num"

YArityError(validation) ==
    IF validation THEN "ValueError: Expect y in validation_data to have output_num arrays, but got data_num"
    ELSE "ValueError: Expect y to have output_num arrays, but got data_num"

ShapeMismatchErrors == {XArityError(v) : v \in BOOLEAN} \cup {YArityError(v) : v \in BOOLEAN}

UnpackError == "ValueError: cannot unpack dataset_shape(x) into x_shapes, y_shapes"

NoneShapeError == "AttributeError: 'NoneType' object has no attribute 'shape'"

LambdaArityError == "TypeError: <lambda>() takes 2 positional arguments"

EmptyZipError == "ValueError: Dataset.zip of no datasets"

TupleBatchError == "AttributeError: 'tuple' object has no attribute 'batch'"

UnfittedAdapterError == "UnfittedAdapterError"

(***************************************************************************)
(* Adapters                                                                *)
(***************************************************************************)
\* An Adapter is fitted once fit_transform has run on it.
Fitted(st, side, i) == st.fits[side][i] > 0

\* adapter.fit_transform(source) followed by hm.config_from_adapter(adapter).
fit_transform(st, side, i) ==
    [st EXCEPT !.fits[side][i] = @ + 1,
               !.trace = @ \o << <<"fit_transform", side, i>>, <<"config_from_adapter", side, i>> >>]

\* adapter.transform(source): only valid on a fitted Adapter.
transform(st, side, i) ==
    [st EXCEPT !.trace = Append(@, <<"transform", side, i>>),
               !.err = IF Fitted(st, side, i) THEN @ ELSE UnfittedAdapterError]

\* adapter.postprocess(temp_y): only valid on a fitted Adapter.
postprocess(st, i) ==
    [st EXCEPT !.trace = Append(@, <<"postprocess", "y", i>>),
               !.err = IF Fitted(st, "y", i) THEN @ ELSE UnfittedAdapterError]

RECURSIVE AdaptLoop(_, _, _, _, _)
AdaptLoop(i, k, fit, side, st) ==
    IF i > k \/ st.err # NoErr THEN st
    ELSE AdaptLoop(i + 1, k, fit, side,
                   IF fit THEN fit_transform(st, side, i) ELSE transform(st, side, i))

\* AutoModel._adapt: zip(sources, hms, adapters) stops at the shortest; the
\* adapted slots are returned alone or zipped.
_adapt(n, fit, side, st) ==
    LET k == Min(n, Len(st.fits[side]))
        done == AdaptLoop(1, k, fit, side, st)
    IN IF done.err # NoErr THEN done
       ELSE IF k = 0 THEN [done EXCEPT !.err = EmptyZipError]
       ELSE done

(***************************************************************************)
(* Data pipeline                                                           *)
(***************************************************************************)
\* len(nest.flatten(.)) of one component of a dataset element.
Leaves(e) == IF e = 0 THEN 1 ELSE e

RECURSIVE SumLeaves(_)
SumLeaves(s) == IF s = <<>> THEN 0 ELSE Leaves(Head(s)) + SumLeaves(Tail(s))

NumIn(st) == Len(st.fits["x"])

NumOut(st) == Len(st.fits["y"])

\* A mutant of _check_data_format: the number of y arrays is not compared.
CheckDataFormatSkipsY(x, y, validation, predict, st) ==
    IF x.ds /\ y # NoneY THEN YWithDatasetError(validation)
    ELSE IF x.ds /\ ~predict /\ Len(x.s) # 2 THEN UnpackError
    ELSE IF ~x.ds /\ ~predict /\ y = NoneY THEN NoneShapeError
    ELSE LET x_shapes == IF x.ds THEN (IF predict THEN SumLeaves(x.s) ELSE Leaves(x.s[1])) ELSE x.n
         IN IF x_shapes # NumIn(st) THEN XArityError(validation)
            ELSE NoErr

\* AutoModel._check_data_format: the exception it raises, or NoErr.
_check_data_format(x, y, validation, predict, st) ==
    IF x.ds /\ y # NoneY THEN YWithDatasetError(validation)
    ELSE IF x.ds /\ ~predict /\ Len(x.s) # 2 THEN UnpackError
    ELSE IF ~x.ds /\ ~predict /\ y = NoneY THEN NoneShapeError
    ELSE LET x_shapes == IF x.ds THEN (IF predict THEN SumLeaves(x.s) ELSE Leaves(x.s[1])) ELSE x.n
             y_shapes == IF x.ds THEN Leaves(x.s[2]) ELSE y
         IN IF x_shapes # NumIn(st) THEN XArityError(validation)
            ELSE IF ~predict /\ y_shapes # NumOut(st) THEN YArityError(validation)
            ELSE NoErr

\* AutoModel._process_xy: check, then adapt x, then (unless predicting) y.
_process_xy(x, y, fit, validation, predict, st) ==
    LET e == _check_data_format(x, y, validation, predict, st)
    IN IF e # NoErr THEN [st EXCEPT !.err = e]
       ELSE LET xn == IF x.ds THEN NumIn(st) ELSE x.n
                yn == IF x.ds THEN NumOut(st) ELSE y
                ax == _adapt(xn, fit, "x", st)
            IN IF ax.err # NoErr \/ predict THEN ax
               ELSE _adapt(yn, fit, "y", ax)

\* data_utils.split_dataset: the trailing fraction becomes the validation set.
split_dataset(d, pct) ==
    LET v == ((d.hi - d.lo) * pct) \div 100
    IN [train |-> [d EXCEPT !.hi = d.hi - v], validation |-> [d EXCEPT !.lo = d.hi - v]]

FitData == [src |-> "x", lo |-> 0, hi |-> NumInstances]

ValData == [src |-> "validation_data", lo |-> 0, hi |-> NumInstances]

\* A mutant of _prepare_data: self._split_dataset is not reset when an
\* explicit validation set is supplied.
PrepareDataKeepsSplit(x, y, vd, vs, st) ==
    IF ~Truthy(vd) /\ vs = 0 THEN [st EXCEPT !.err = MissingValidationError]
    ELSE LET e == _check_data_format(x, y, FALSE, FALSE, st)
             fitted == _process_xy(x, y, TRUE, FALSE, FALSE, st)
             val == _process_xy(vd.x, vd.y, FALSE, TRUE, FALSE, fitted)
         IN IF e # NoErr THEN [st EXCEPT !.err = e]
            ELSE IF fitted.err # NoErr THEN fitted
            ELSE IF Truthy(vd)
            THEN (IF val.err # NoErr THEN val
                  ELSE [val EXCEPT !.dataset = FitData, !.validation_data = ValData])
            ELSE IF vd.t = "none" /\ vs # 0
            THEN [fitted EXCEPT !.split = TRUE,
                                !.dataset = split_dataset(FitData, vs).train,
                                !.validation_data = split_dataset(FitData, vs).validation]
            ELSE [fitted EXCEPT !.dataset = FitData, !.validation_data = [NoData EXCEPT !.src = "()"]]

\* A mutant of _prepare_data: the validation information is checked after
\* the training data has been processed.
PrepareDataChecksLate(x, y, vd, vs, st) ==
    LET e == _check_data_format(x, y, FALSE, FALSE, st)
        fitted == _process_xy(x, y, TRUE, FALSE, FALSE, st)
        val == _process_xy(vd.x, vd.y, FALSE, TRUE, FALSE, [fitted EXCEPT !.split = FALSE])
    IN IF e # NoErr THEN [st EXCEPT !.err = e]
       ELSE IF fitted.err # NoErr THEN fitted
       ELSE IF ~Truthy(vd) /\ vs = 0 THEN [fitted EXCEPT !.err = MissingValidationError]
       ELSE IF Truthy(vd)
       THEN (IF val.err # NoErr THEN val
             ELSE [val EXCEPT !.dataset = FitData, !.validation_data = ValData])
       ELSE IF vd.t = "none" /\ vs # 0
       THEN [fitted EXCEPT !.split = TRUE,
                           !.dataset = split_dataset(FitData, vs).train,
                           !.validation_data = split_dataset(FitData, vs).validation]
       ELSE [fitted EXCEPT !.dataset = FitData, !.validation_data = [NoData EXCEPT !.src = "()"]]

\* AutoModel._prepare_data: the validation information is checked first, the
\* training data is checked and fitted, the explicit validation set is
\* converted, or else the fitted dataset is split.
_prepare_data(x, y, vd, vs, st) ==
    IF ~Truthy(vd) /\ vs = 0 THEN [st EXCEPT !.err = MissingValidationError]
    ELSE LET e == _check_data_format(x, y, FALSE, FALSE, st)
             fitted == _process_xy(x, y, TRUE, FALSE, FALSE, st)
             val == _process_xy(vd.x, vd.y, FALSE, TRUE, FALSE, [fitted EXCEPT !.split = FALSE])
         IN IF e # NoErr THEN [st EXCEPT !.err = e]
            ELSE IF fitted.err # NoErr THEN fitted
            ELSE IF Truthy(vd)
            THEN (IF val.err # NoErr THEN val
                  ELSE [val EXCEPT !.dataset = FitData, !.validation_data = ValData])
            ELSE IF vd.t = "none" /\ vs # 0
            THEN [fitted EXCEPT !.split = TRUE,
                                !.dataset = split_dataset(FitData, vs).train,
                                !.validation_data = split_dataset(FitData, vs).validation]
            ELSE [fitted EXCEPT !.dataset = FitData, !.validation_data = [NoData EXCEPT !.src = "()"]]

\* AutoModel.fit: prepare the data, batch both datasets, search.
fit(x, y, vd, vs, st) ==
    LET p == _prepare_data(x, y, vd, vs, st)
    IN IF p.err # NoErr THEN p
       ELSE IF p.validation_data.src = "()" THEN [p EXCEPT !.err = TupleBatchError]
       ELSE [p EXCEPT !.trace = Append(@, <<"search", "tuner", 0>>),
                      !.search = [called |-> TRUE, x |-> p.dataset,
                                  validation_data |-> p.validation_data,
                                  fit_on_val_data |-> p.split],
                      !.ready = TRUE]

\* The first component of a dataset element, as a dataset of its own.
First(s) == IF s[1] = 0 THEN <<0>> ELSE [i \in 1..s[1] |-> 0]

\* AutoModel._get_x: the x part of a dataset given to predict.
_get_x(s, st) ==
    IF Len(s) <= 1 THEN [err |-> NoErr, s |-> First(s)]
    ELSE IF \E i \in 1..Len(s) : s[i] > 0
    THEN (IF Len(s) = 2 THEN [err |-> NoErr, s |-> First(s)]
          ELSE [err |-> LambdaArityError, s |-> s])
    ELSE IF Len(s) = 2 /\ NumIn(st) = 1 /\ NumOut(st) = 1 THEN [err |-> NoErr, s |-> First(s)]
    ELSE [err |-> NoErr, s |-> s]

RECURSIVE PostLoop(_, _, _)
PostLoop(i, k, st) ==
    IF i > k \/ st.err # NoErr THEN st
    ELSE PostLoop(i + 1, k, postprocess(st, i))

\* AutoModel._postprocess: one postprocess per model output and Head Adapter.
_postprocess(st) == PostLoop(1, NumOut(st), st)

\* AutoModel.predict: adapt x, query the best model, postprocess its output.
predict(x, st) ==
    LET gx == _get_x(x.s, st)
        adapted == IF x.ds
                   THEN (IF gx.err # NoErr THEN [st EXCEPT !.err = gx.err]
                         ELSE _process_xy(Ds(gx.s), NoneY, FALSE, FALSE, TRUE, st))
                   ELSE _adapt(x.n, FALSE, "x", st)
    IN IF adapted.err # NoErr THEN adapted
       ELSE _postprocess([adapted EXCEPT !.trace = @ \o << <<"get_best_model", "tuner", 0>>, <<"predict", "model", 0>> >>])

\* AutoModel.evaluate: convert x and y without fitting, evaluate the best model.
evaluate(x, y, st) ==
    LET d == _process_xy(x, y, FALSE, FALSE, FALSE, st)
    IN IF d.err # NoErr THEN d
       ELSE [d EXCEPT !.trace = @ \o << <<"get_best_model", "tuner", 0>>, <<"evaluate", "model", 0>> >>]

(***************************************************************************)
(* Specification of construction                                           *)
(***************************************************************************)
Unfitted(n) == [i \in 1..n |-> 0]

InitDeclared ==
    /\ phase = "declared"
    /\ inputs \in SeqsUpTo(InputKinds, 0, MaxInputs)
    /\ declOutputs \in SeqsUpTo(OutputKinds, 1, MaxOutputs)
    /\ tunerArg \in TunerArgs
    /\ blocks = <<>>
    /\ middle = <<>>
    /\ graph = NoGraph
    /\ tuner = "none"
    /\ err = NoErr
    /\ fits = [x |-> <<>>, y |-> <<>>]
    /\ split = FALSE
    /\ trace = <<>>
    /\ call = NoCall
    /\ search = NoSearch
    /\ ready = FALSE
    /\ calls = 0

\* AutoModel(inputs, outputs, tuner=...): __init__ and, when it returns, the
\* adapters of the inputs and of the heads.
Construct ==
    /\ phase = "declared"
    /\ LET r == __init__(inputs, declOutputs, tunerArg)
       IN /\ phase' = IF r.err = NoErr THEN "constructed" ELSE "failed"
          /\ err' = r.err
          /\ blocks' = r.blocks
          /\ middle' = r.middle
          /\ graph' = r.graph
          /\ tuner' = r.tuner
          /\ fits' = IF r.err = NoErr
                     THEN [x |-> Unfitted(Len(inputs)), y |-> Unfitted(Len(r.graph.outputs))]
                     ELSE fits
    /\ UNCHANGED <<inputs, declOutputs, tunerArg, split, trace, call, search, ready, calls>>

NextBuild == Construct

SpecBuild == InitDeclared /\ [][NextBuild]_vars

(***************************************************************************)
(* Specification of the public calls                                       *)
(***************************************************************************)
\* The instances the calls are made on: every declaration with at least one
\* input that __init__ accepts.
Init ==
    \E ins \in SeqsUpTo({"image"}, 1, MaxInputs), outs \in SeqsUpTo({"Head"}, 1, MaxOutputs) :
        LET r == __init__(ins, outs, "greedy")
        IN /\ r.err = NoErr
           /\ phase = "constructed"
           /\ inputs = ins
           /\ declOutputs = outs
           /\ tunerArg = "greedy"
           /\ blocks = r.blocks
           /\ middle = r.middle
           /\ graph = r.graph
           /\ tuner = r.tuner
           /\ err = NoErr
           /\ fits = [x |-> Unfitted(Len(ins)), y |-> Unfitted(Len(r.graph.outputs))]
           /\ split = FALSE
           /\ trace = <<>>
           /\ call = NoCall
           /\ search = NoSearch
           /\ ready = FALSE
           /\ calls = 0

State == [fits |-> fits, split |-> split, trace |-> <<>>, err |-> NoErr, search |-> search,
          ready |-> ready, dataset |-> NoData, validation_data |-> NoData]

Took(op, x, y, vd, vs, r) ==
    /\ fits' = r.fits
    /\ split' = r.split
    /\ trace' = r.trace
    /\ err' = r.err
    /\ search' = r.search
    /\ ready' = r.ready
    /\ call' = [op |-> op, x |-> x, y |-> y, vd |-> vd, vs |-> vs]
    /\ calls' = calls + 1
    /\ UNCHANGED buildVars

Fit ==
    /\ phase = "constructed"
    /\ calls < MaxCalls
    /\ \E xy \in XYArgs, vs \in Splits : \E vd \in ValArgs(xy[1]) :
           Took("fit", xy[1], xy[2], vd, vs, fit(xy[1], xy[2], vd, vs, State))

Predict ==
    /\ phase = "constructed"
    /\ calls < MaxCalls
    /\ \E x \in XArgs : Took("predict", x, NoneY, NoVal, 0, predict(x, State))

Evaluate ==
    /\ phase = "constructed"
    /\ calls < MaxCalls
    /\ \E xy \in XYArgs : Took("evaluate", xy[1], xy[2], NoVal, 0, evaluate(xy[1], xy[2], State))

Next == Fit \/ Predict \/ Evaluate

Spec == Init /\ [][Next]_vars

(***************************************************************************)
(* Properties of construction (SpecBuild)                                  *)
(***************************************************************************)
Mixed == (\E j \in DOMAIN declOutputs : declOutputs[j] = "Node")
         /\ (\E j \in DOMAIN declOutputs : declOutputs[j] = "Head")

Inferred == AllOf(declOutputs, "Head")

Constructing == phase # "declared"

EncoderBlocks == {"TextBlock", "ImageBlock", "StructuredDataBlock", "TimeseriesBlock"}

\* C1: a declaration whose outputs mix Nodes and bare Heads always fails in
\* _build_graph (the structure error the code raises there is the unbound
\* local graph), with no Block instantiated or applied and no Graph produced.
C1_MixedOutputsFail ==
    (Constructing /\ Mixed) =>
        /\ phase = "failed"
        /\ err = UnboundGraphError
        /\ blocks = <<>>
        /\ middle = <<>>
        /\ ~graph.built
        /\ tuner = "none"

C1_Witness ==
    /\ phase = "failed"
    /\ Mixed
    /\ Len(inputs) = MaxInputs
    /\ \A i \in DOMAIN inputs : inputs[i] \in RecognizedKinds
    /\ tunerArg = "greedy"

\* C5 as stated: an invalid tuner string raises the error naming the four
\* valid choices before any graph work, so that no Graph is constructed and
\* no Block is instantiated.
C5_InvalidTunerFailsFirst ==
    (Constructing /\ IsStr(tunerArg) /\ tunerArg \notin DOMAIN TUNER_CLASSES) =>
        /\ phase = "failed"
        /\ err = TunerValueError
        /\ ~graph.built
        /\ blocks = <<>>

\* C8: in inferred mode with at least one input and every input of a
\* recognized kind, each input gets exactly one encoder Block and one middle
\* Node, and the Graph has one source per input and one sink per Head.
C8_InferredAssembly ==
    (Constructing /\ Inferred /\ Len(inputs) >= 1
     /\ \A i \in DOMAIN inputs : inputs[i] \in RecognizedKinds) =>
        /\ Len(middle) = Len(inputs)
        /\ \A i \in DOMAIN inputs :
              /\ Cardinality({k \in DOMAIN middle : middle[k] = i}) = 1
              /\ Cardinality({k \in DOMAIN middle : middle[k] = i /\ blocks[k] \in EncoderBlocks}) = 1
        /\ Cardinality({k \in DOMAIN blocks : blocks[k] \in EncoderBlocks}) = Len(inputs)
        /\ graph.built
        /\ Len(graph.inputs) = Len(inputs)
        /\ Len(graph.outputs) = Len(declOutputs)

C8_Witness ==
    /\ phase = "constructed"
    /\ Inferred
    /\ Len(inputs) = MaxInputs
    /\ inputs[1] = "timeseries"
    /\ inputs[MaxInputs] = "structured"
    /\ Len(declOutputs) = MaxOutputs
    /\ Len(graph.outputs) = MaxOutputs

\* C9: in inferred mode, when no input yields a middle Node (no inputs, or
\* only inputs of an unrecognized kind), assembly fails on the empty
\* middle_nodes list, no Head is applied and no Graph is constructed.
C9_NoMiddleNodesFail ==
    (Constructing /\ Inferred /\ \A i \in DOMAIN inputs : inputs[i] \notin RecognizedKinds) =>
        /\ phase = "failed"
        /\ err = MiddleIndexError
        /\ \A k \in DOMAIN blocks : blocks[k] # "Head"
        /\ ~graph.built

C9_Witness ==
    /\ phase = "failed"
    /\ Inferred
    /\ Len(inputs) = MaxInputs
    /\ \A i \in DOMAIN inputs : inputs[i] = "generic"
    /\ err = MiddleIndexError

(***************************************************************************)
(* Properties of the public calls (Spec)                                   *)
(***************************************************************************)
Sides == {"x", "y"}

AdapterCalls == {"fit_transform", "config_from_adapter", "transform", "postprocess"}

Invoked(ops) == \E k \in DOMAIN trace : trace[k][1] \in ops

\* The step is a fit call made with these arguments.
FitStep == calls' = calls + 1 /\ call'.op = "fit"

\* x and y are given as arrays and one of the two counts is wrong.
RawMismatch(c) ==
    /\ ~c.x.ds
    /\ c.y # NoneY
    /\ (c.x.n # Len(fits["x"]) \/ c.y # Len(fits["y"]))

\* C2 as stated: over any sequence of calls every Adapter is fitted at most
\* once, and exactly once when some fit has completed.
C2_FittedExactlyOnce ==
    \A side \in Sides : \A i \in DOMAIN fits[side] :
        /\ fits[side][i] <= 1
        /\ ready => fits[side][i] = 1

\* C3 as stated: no transform or postprocess is ever invoked on an Adapter
\* that has not been fitted.
C3_NoUnfittedUse ==
    \A k \in DOMAIN trace :
        trace[k][1] \in {"transform", "postprocess"} => fits[trace[k][2]][trace[k][3]] > 0

\* C4 as stated: every fit call with arrays x, y of a wrong count raises the
\* arity error before any Adapter is touched.
C4_ArityErrorFirst ==
    [][(FitStep /\ RawMismatch(call')) =>
          /\ err' \in ShapeMismatchErrors
          /\ trace' = <<>>
          /\ fits' = fits]_vars

\* C4, amended: every fit call that supplies a validation set or a split
\* fraction, with arrays x, y of a wrong count, raises the arity error of
\* the training data before any Adapter is touched.
C4_ArityErrorFirstAmended ==
    [][(FitStep /\ RawMismatch(call') /\ (Truthy(call'.vd) \/ call'.vs # 0)) =>
          /\ err' \in {XArityError(FALSE), YArityError(FALSE)}
          /\ trace' = <<>>
          /\ fits' = fits
          /\ split' = split
          /\ search' = search]_vars

C4_Witness ==
    /\ call.op = "fit"
    /\ calls = MaxCalls
    /\ call.x = Raw(Len(fits["x"]))
    /\ call.y # NoneY
    /\ call.y # Len(fits["y"])
    /\ call.vs # 0
    /\ err = YArityError(FALSE)
    /\ fits["x"][1] = 1

\* C6: when a fit call reaches the Tuner, fit_on_val_data is decided by the
\* call's arguments: false with an explicit validation set, which is the
\* validation dataset; true with a split fraction only, the train and
\* validation datasets being the leading and trailing parts of the fit data.
C6_FitOnValFromArguments ==
    (call.op = "fit" /\ err = NoErr) =>
        /\ Invoked({"search"})
        /\ search.called
        /\ search.fit_on_val_data = split
        /\ Truthy(call.vd) =>
              /\ ~search.fit_on_val_data
              /\ search.x = FitData
              /\ search.validation_data = ValData
        /\ ~Truthy(call.vd) =>
              /\ call.vs # 0
              /\ search.fit_on_val_data
              /\ search.x.src = "x" /\ search.validation_data.src = "x"
              /\ search.x.lo = 0
              /\ search.x.hi = search.validation_data.lo
              /\ search.validation_data.hi = NumInstances
              /\ (search.validation_data.hi - search.validation_data.lo) * 100 <= NumInstances * call.vs
              /\ (search.validation_data.hi - search.validation_data.lo + 1) * 100 > NumInstances * call.vs

C6_Witness ==
    /\ call.op = "fit"
    /\ err = NoErr
    /\ calls = MaxCalls
    /\ Truthy(call.vd)
    /\ call.vs # 0
    /\ ~search.fit_on_val_data
    /\ fits["x"][1] = MaxCalls

\* C7: a fit call with neither a validation set nor a split fraction raises
\* the missing-validation error before anything else: no Adapter is fitted
\* or applied, the split flag is unchanged and the Tuner is not called.
C7_MissingValidationFirst ==
    [][(FitStep /\ ~Truthy(call'.vd) /\ call'.vs = 0) =>
          /\ err' = MissingValidationError
          /\ trace' = <<>>
          /\ fits' = fits
          /\ split' = split
          /\ search' = search
          /\ ready' = ready]_vars

C7_Witness ==
    /\ call.op = "fit"
    /\ ~Truthy(call.vd)
    /\ call.vs = 0
    /\ err = MissingValidationError
    /\ trace = <<>>
    /\ split
    /\ search.called
    /\ fits["x"][1] = 1

\* C10 as stated: when the explicit validation set has a wrong arity, the
\* error naming validation_data surfaces before that fit call has fitted
\* any Adapter and before the Tuner is called.
C10_ValidationArityErrorFirst ==
    (call.op = "fit" /\ err \in {XArityError(TRUE), YArityError(TRUE)}) =>
        /\ ~Invoked({"fit_transform"})
        /\ ~Invoked({"search"})

\* The number of top-level elements of the x given to predict: the arrays
\* given, or the tensors of the x part of the dataset given.
PredictArity(c) ==
    IF c.x.ds THEN SumLeaves(_get_x(c.x.s, [fits |-> fits]).s) ELSE c.x.n

\* C11 as stated: on an instance whose fit has completed, a predict call
\* whose x (arrays or dataset, at least one element) has a number of elements
\* other than the number of declared inputs raises the arity error before
\* any Adapter transform and before the best model is queried.
C11_PredictArityChecked ==
    (call.op = "predict" /\ ready
     /\ (call.x.ds => _get_x(call.x.s, [fits |-> fits]).err = NoErr)
     /\ PredictArity(call) >= 1
     /\ PredictArity(call) # Len(fits["x"])) =>
        /\ err = XArityError(FALSE)
        /\ ~Invoked({"transform"})
        /\ ~Invoked({"get_best_model"})

====
